---------------------------- MODULE Spec2Model ----------------------------
(***************************************************************************)
(* Model of the playlist/song server of src/public/app.js (lines 399-668): *)
(* the two Mongoose collections, the uploads directory and the Express     *)
(* handlers that create, read and delete playlists and songs.  The listing *)
(* of all playlists and the administrative clear-all are left out.         *)
(*                                                                         *)
(* Every handler is an async function: it runs without interruption up to  *)
(* an await, and other requests run while it waits.  A handler is          *)
(* therefore one action per awaited call (the call takes effect atomically *)
(* in the store or in the uploads directory) and one per continuation that *)
(* changes the uploads directory; synchronous file system calls            *)
(* (existsSync, unlinkSync, readdirSync) run inside one action.  A         *)
(* continuation that only computes and sends the response touches nothing  *)
(* shared, so it runs in the action of the call it follows.                *)
(*                                                                         *)
(* Assumptions: the record store is available (awaited Mongoose calls      *)
(* resolve unless schema validation rejects the document); ids are         *)
(* well-formed, opaque and never issued twice; generated file names never  *)
(* collide; the server's working directory is its __dirname.  unlinkSync   *)
(* and music-metadata's parseFile may throw.  title and artist of a song   *)
(* are not modelled.                                                       *)
(*                                                                         *)
(* The React client of the same file (lines 1-397) is modelled on top of   *)
(* the server actions, in SpecClient: the state of App and PlaylistDetails *)
(* and the closures of the handlers that await a response.                 *)
(***************************************************************************)
EXTENDS Integers, Sequences, FiniteSets

\* ------------------------------------------------------------------ bounds
MaxPlaylists == 1     \* playlist ids the store issues
MaxBlobs     == 2     \* file names multer generates (so at most as many songs)
MaxSeconds   == 3700  \* longest extracted duration (SpecAddSong)
MaxClientPlaylists == 2  \* playlists the browser client creates (SpecClient)

\* the requests the server has in flight at once
Procs == {"r1", "r2"}

\* -------------------------------------------------------- program constants
FileSizeLimit == 10485760            \* limits.fileSize, 10 * 1024 * 1024

\* A value that may be null or undefined is a sequence: empty, or the value.
Null == <<>>
Some(x) == <<x>>

VARIABLES
    playlists,   \* Playlist collection: set of rows [_id, name]
    songs,       \* Song collection: set of rows [_id, playlistId, audioFile, duration]
    blobs,       \* file names present in the uploads directory
    nextId,      \* [playlist, song, blob]: next id / file name to issue
    req,         \* req[p]: the request handler p runs, with its local variables
    response,    \* the response the last step sent, Null when it sent none
    deletedOk,   \* history: playlist ids whose DELETE returned 200
    cascaded,    \* history: files of the Song rows such a DELETE removed
    raced,       \* history: files of the uploads into P in flight at such a DELETE of P
    client       \* the React state of the one browser client (lines 1-397)

vars ==
    <<playlists, songs, blobs, nextId, req, response, deletedOk, cascaded, raced,
      client>>

\* ------------------------------------------------------------ text helpers
\* Strings the code inspects are sequences of one-character strings.
Upper == <<"A", "G", "M", "O", "P", "V", "W">>
Lower == <<"a", "g", "m", "o", "p", "v", "w">>

\* String.prototype.toLowerCase (line 430)
LowerChar(c) ==
    IF \E i \in 1..Len(Upper) : Upper[i] = c
    THEN Lower[CHOOSE i \in 1..Len(Upper) : Upper[i] = c]
    ELSE c

ToLowerCase(s) == [i \in 1..Len(s) |-> LowerChar(s[i])]

\* s.includes(t): what an unanchored RegExp.test of a literal does
Contains(s, t) ==
    \E i \in 1..(Len(s) - Len(t) + 1) : SubSeq(s, i, i + Len(t) - 1) = t

\* String.prototype.startsWith (line 431)
StartsWith(s, t) == Len(s) >= Len(t) /\ SubSeq(s, 1, Len(t)) = t

\* path.extname (lines 422, 430): from the last "." of the name to its end,
\* empty when there is none or the name starts with it
ExtName(name) ==
    LET dots == {i \in 1..Len(name) : name[i] = "."}
        last == CHOOSE i \in dots : \A j \in dots : j <= i
    IN  IF dots = {} \/ last = 1 THEN <<>> ELSE SubSeq(name, last, Len(name))

\* allowedTypes = /mp3|wav|ogg|m4a/ (line 429)
AllowedTypes ==
    { <<"m", "p", "3">>, <<"w", "a", "v">>, <<"o", "g", "g">>, <<"m", "4", "a">> }

AllowedTypesTest(s) == \E t \in AllowedTypes : Contains(s, t)

AudioPrefix == <<"a", "u", "d", "i", "o", "/">>

\* multer fileFilter (lines 428-438): TRUE when the file is accepted
FileFilter(file) ==
    LET extname  == AllowedTypesTest(ToLowerCase(ExtName(file.originalname)))
        mimetype == AllowedTypesTest(file.mimetype)
                        \/ StartsWith(file.mimetype, AudioPrefix)
    IN  mimetype /\ extname

\* Number.prototype.toString of a non-negative integer
Digit(n) == <<"0", "1", "2", "3", "4", "5", "6", "7", "8", "9">>[n + 1]

RECURSIVE NumberToString(_)
NumberToString(n) ==
    IF n < 10 THEN <<Digit(n)>> ELSE NumberToString(n \div 10) \o <<Digit(n % 10)>>

\* String.prototype.padStart(len, ch)
RECURSIVE PadStart(_, _, _)
PadStart(s, len, ch) == IF Len(s) >= len THEN s ELSE PadStart(<<ch>> \o s, len, ch)

\* (mutant of FormatDuration: padStart is lost)
FormatDurationUnpadded(d) ==
    NumberToString(d \div 60) \o <<":">> \o NumberToString(d % 60)

\* lines 559-560: durationInSeconds = metadata.format.duration || 0, then
\* `${Math.floor(d / 60)}:${Math.floor(d % 60).toString().padStart(2, '0')}`
DurationInSeconds(duration) == IF duration = Null THEN 0 ELSE duration[1]

FormatDuration(d) ==
    NumberToString(d \div 60) \o <<":">> \o PadStart(NumberToString(d % 60), 2, "0")


\* ------------------------------------------------------------------ inputs
\* req.body.name of POST /api/playlists; the empty one fails `required`
Names == {"", "Road Trip"}

\* a well-formed id that no row ever carries
NoSuchPlaylist == MaxPlaylists + 1
NoSuchSong     == MaxBlobs + 1

IssuedPlaylistIds == 1..(nextId.playlist - 1)
IssuedSongIds     == 1..(nextId.song - 1)

\* :id of the playlist routes, :id of the song route, playlistId of the upload
PlaylistIdInputs == IssuedPlaylistIds \cup {NoSuchPlaylist}
SongIdInputs     == IssuedSongIds \cup {NoSuchSong}
SomePlaylistIds  == {Some(i) : i \in PlaylistIdInputs}
BodyPlaylistIds  == SomePlaylistIds \cup {Null}

\* the file part of the upload, as multer hands it to fileFilter
Mp3File ==
    [ originalname |-> <<"A", ".", "M", "P", "3">>,
      mimetype     |-> <<"a", "u", "d", "i", "o", "/", "m", "p", "e", "g">>,
      size         |-> FileSizeLimit ]
BigFile == [Mp3File EXCEPT !.size = FileSizeLimit + 1]
PdfFile ==
    [ originalname |-> <<"d", ".", "p", "d", "f">>,
      mimetype     |-> <<"a", "p", "p", "l", "i", "c", "a", "t", "i", "o", "n", "/", "p", "d", "f">>,
      size         |-> 1 ]
TextMimeFile ==
    [ originalname |-> <<"a", ".", "w", "a", "v">>,
      mimetype     |-> <<"t", "e", "x", "t", "/", "p", "l", "a", "i", "n">>,
      size         |-> 1 ]
TextNameFile ==
    [ originalname |-> <<"a", ".", "t", "x", "t">>,
      mimetype     |-> <<"a", "u", "d", "i", "o", "/", "w", "a", "v">>,
      size         |-> 1 ]
VideoFile ==
    [ originalname |-> <<"v", ".", "o", "g", "g">>,
      mimetype     |-> <<"v", "i", "d", "e", "o", "/", "o", "g", "g">>,
      size         |-> 1 ]

FileInputs ==
    {Null} \cup {Some(f) : f \in {Mp3File, BigFile, PdfFile, TextMimeFile, TextNameFile, VideoFile}}

CommonFiles == {Some(Mp3File), Some(PdfFile)}

\* metadata.format.duration as the extractor reports it, in whole seconds
ExtractedDurations == {Some(125)}
AllDurations == {Null} \cup {Some(d) : d \in 0..MaxSeconds}

\* ----------------------------------------------------------- request state
NoReq ==
    [ op       |-> "",     \* the route
      pc       |-> "idle", \* where the handler is
      id       |-> Null,   \* req.params.id, or req.body.playlistId
      file     |-> Null,   \* req.file: originalname, mimetype, size
      filename |-> Null,   \* req.file.filename
      duration |-> Null,   \* metadata.format.duration
      playlist |-> Null,   \* const playlist
      song     |-> Null,   \* const song
      songs    |-> <<>> ]  \* const songs

Free(p) == req[p].pc = "idle"

\* res.status(status).json(body); error is what the catch block caught
\* (id: the :id of the route; file: the file part of a rejected upload)
Response(r, status, error, body) ==
    Some([op |-> r.op, id |-> IF r.op = "addSong" THEN Null ELSE r.id,
          file |-> IF status = 201 THEN Null ELSE r.file,
          status |-> status, error |-> error, body |-> body])

\* ------------------------------------------------------------ store helpers
\* Model.findById
FindById(rows, id) ==
    IF \E r \in rows : r._id = id
    THEN Some(CHOOSE r \in rows : r._id = id)
    ELSE Null

\* (mutant of DeleteById: findById instead of findByIdAndDelete)
DeleteByIdKeepsRow(rows, id) == rows

\* Model.findByIdAndDelete: the rows left
DeleteById(rows, id) == {r \in rows : r._id # id}

\* rows in the store's native order: insertion order, which is _id order
RECURSIVE InOrder(_)
InOrder(rows) ==
    IF rows = {} THEN <<>>
    ELSE LET first == CHOOSE r \in rows : \A q \in rows : r._id <= q._id
         IN  <<first>> \o InOrder(rows \ {first})

\* (mutant of SongFind: the filter on playlistId is lost)
SongFindUnfiltered(id) == InOrder(songs)

\* Song.find({ playlistId: id }) (lines 593, 617)
SongFind(id) == InOrder({s \in songs : s.playlistId = id})

\* Song.deleteMany({ playlistId: id }) (line 630): the rows left
SongDeleteMany(id) == {s \in songs : s.playlistId # id}

\* song.audioFile is `/uploads/${req.file.filename}` (line 566);
\* path.join(__dirname, song.audioFile.replace(/^\//, '')) (lines 622, 652)
\* names that file of the uploads directory again
AudioFile(filename) == <<"/uploads/", filename>>
FilePath(audioFile) == audioFile[2]

\* The browser client right after it is mounted, GET /api/playlists having
\* answered with the empty list: the state of App (lines 329-330) and of
\* PlaylistDetails (lines 196-197), and what the handlers that await a
\* response closed over.  currentSong and the form fields are not modelled.
NoClient ==
    [ playlists          |-> <<>>,   \* App: const [playlists, setPlaylists]
      selectedPlaylistId |-> Null,   \* App: const [selectedPlaylistId, ...]
      playlist           |-> Null,   \* PlaylistDetails: const [playlist, setPlaylist]
      songs              |-> <<>>,   \* PlaylistDetails: const [songs, setSongs]
      created            |-> Null,   \* res.data of POST /api/playlists on its way,
                                     \* with the playlists its callback closed over
      closure            |-> [p \in Procs |-> Null] ]
                                     \* the songs or playlists the handler that
                                     \* awaits request p closed over

Init ==
    /\ client = NoClient
    /\ playlists = {}
    /\ songs = {}
    /\ blobs = {}
    /\ nextId = [playlist |-> 1, song |-> 1, blob |-> 1]
    /\ req = [p \in Procs |-> NoReq]
    /\ response = Null
    /\ deletedOk = {}
    /\ cascaded = {}
    /\ raced = {}

\* ------------------------------------------- POST /api/playlists (530-541)
\* new Playlist({ name, creator }); await playlist.save(); name is required
CreatePlaylist(p, max) ==
    /\ Free(p)
    /\ \E name \in Names :
         LET r   == [NoReq EXCEPT !.op = "createPlaylist"]
             row == [_id |-> nextId.playlist, name |-> name]
         IN  IF name = ""
             THEN /\ response' = Response(r, 500, "ValidationError", Null)
                  /\ UNCHANGED <<playlists, nextId>>
             ELSE /\ nextId.playlist <= max
                  /\ playlists' = playlists \cup {row}
                  /\ nextId' = [nextId EXCEPT !.playlist = @ + 1]
                  /\ response' = Response(r, 201, "", Some(row))
    /\ UNCHANGED <<songs, blobs, req, deletedOk, cascaded, raced>>

\* ----------------------------------------------- POST /api/songs (544-578)
\* upload.single('audioFile'): fileFilter, the size limit, then diskStorage
\* writes the file under a generated name; a rejected upload goes to the
\* Express error handler and the route handler never runs.  Without a file
\* part the handler runs and answers 400 (lines 548-550).
AddSongUpload(p, ids, files) ==
    /\ Free(p)
    /\ \E id \in ids, file \in files :
         LET r == [NoReq EXCEPT !.op = "addSong", !.id = id, !.file = file]
         IN  IF file = Null
             THEN /\ response' = Response(r, 400, "", Null)
                  /\ UNCHANGED <<blobs, nextId, req>>
             ELSE IF ~FileFilter(file[1])
             THEN /\ response' = Response(r, 500, "Only audio files are allowed", Null)
                  /\ UNCHANGED <<blobs, nextId, req>>
             ELSE IF file[1].size > FileSizeLimit
             THEN /\ response' = Response(r, 500, "File too large", Null)
                  /\ UNCHANGED <<blobs, nextId, req>>
             ELSE /\ nextId.blob <= MaxBlobs
                  /\ blobs' = blobs \cup {nextId.blob}
                  /\ nextId' = [nextId EXCEPT !.blob = @ + 1]
                  /\ req' = [req EXCEPT ![p] =
                        [r EXCEPT !.pc = "parse", !.filename = Some(nextId.blob)]]
                  /\ response' = Null
    /\ UNCHANGED <<playlists, songs, deletedOk, cascaded, raced>>

\* (mutant of AddSongParse: the catch block unlinks the uploaded file)
AddSongParseCleansUp(p, durations) ==
    /\ req[p].op = "addSong" /\ req[p].pc = "parse"
    /\ \/ /\ response' = Response(req[p], 500, "MetadataExtractionError", Null)
          /\ req' = [req EXCEPT ![p] = NoReq]
          /\ blobs' = blobs \ {req[p].filename[1]}
       \/ \E d \in durations :
            /\ req' = [req EXCEPT ![p].pc = "save", ![p].file = Null,
                                  ![p].duration = d]
            /\ response' = Null
            /\ blobs' = blobs
    /\ UNCHANGED <<playlists, songs, nextId, deletedOk, cascaded, raced>>

\* await mm.parseFile(filePath) (line 554) of the file just written, which
\* no other request can name yet: rejects when it cannot be parsed, otherwise
\* reports a duration or none
AddSongParse(p, durations) ==
    /\ req[p].op = "addSong" /\ req[p].pc = "parse"
    /\ \/ /\ response' = Response(req[p], 500, "MetadataExtractionError", Null)
          /\ req' = [req EXCEPT ![p] = NoReq]
       \/ \E d \in durations :
            /\ req' = [req EXCEPT ![p].pc = "save", ![p].file = Null,
                                  ![p].duration = d]
            /\ response' = Null
    /\ UNCHANGED <<playlists, songs, blobs, nextId, deletedOk, cascaded, raced>>

\* new Song({ ..., duration, audioFile, playlistId }) (lines 560-568)
NewSong(r) ==
    [ _id        |-> nextId.song,
      playlistId |-> r.id[1],
      audioFile  |-> AudioFile(r.filename[1]),
      duration   |-> FormatDuration(DurationInSeconds(r.duration)) ]

\* (mutant of AddSongSave: the playlist is looked up before the row is saved)
AddSongSaveChecked(p) ==
    /\ req[p].op = "addSong" /\ req[p].pc = "save"
    /\ IF req[p].id = Null \/ FindById(playlists, req[p].id[1]) = Null
       THEN /\ response' = Response(req[p], 404, "", Null)
            /\ UNCHANGED <<songs, nextId>>
       ELSE /\ songs' = songs \cup {NewSong(req[p])}
            /\ nextId' = [nextId EXCEPT !.song = @ + 1]
            /\ response' = Response(req[p], 201, "", Some(NewSong(req[p])))
    /\ req' = [req EXCEPT ![p] = NoReq]
    /\ UNCHANGED <<playlists, blobs, deletedOk, cascaded, raced>>

\* await song.save() (line 570), playlistId being required (line 488), then
\* res.status(201).json(song)
AddSongSave(p) ==
    /\ req[p].op = "addSong" /\ req[p].pc = "save"
    /\ IF req[p].id = Null
       THEN /\ response' = Response(req[p], 500, "ValidationError", Null)
            /\ UNCHANGED <<songs, nextId>>
       ELSE /\ songs' = songs \cup {NewSong(req[p])}
            /\ nextId' = [nextId EXCEPT !.song = @ + 1]
            /\ response' = Response(req[p], 201, "", Some(NewSong(req[p])))
    /\ req' = [req EXCEPT ![p] = NoReq]
    /\ UNCHANGED <<playlists, blobs, deletedOk, cascaded, raced>>

\* ----------------------------------------- GET /api/playlists/:id (581-603)
\* await Playlist.findById(id); if (!playlist) return res.status(404)...
GetPlaylistFindById(p) ==
    /\ Free(p)
    /\ \E id \in PlaylistIdInputs :
         LET r == [NoReq EXCEPT !.op = "getPlaylist", !.id = Some(id),
                                !.playlist = FindById(playlists, id)]
         IN  IF r.playlist = Null
             THEN /\ response' = Response(r, 404, "", Null)
                  /\ req' = req
             ELSE /\ response' = Null
                  /\ req' = [req EXCEPT ![p] = [r EXCEPT !.pc = "found"]]
    /\ UNCHANGED <<playlists, songs, blobs, nextId, deletedOk, cascaded, raced>>

\* await Song.find({ playlistId: id }); res.json({ playlist, songs })
GetPlaylistFindSongs(p) ==
    /\ req[p].op = "getPlaylist" /\ req[p].pc = "found"
    /\ response' = Response(req[p], 200, "",
                            Some([playlist |-> req[p].playlist[1],
                                  songs    |-> SongFind(req[p].id[1])]))
    /\ req' = [req EXCEPT ![p] = NoReq]
    /\ UNCHANGED <<playlists, songs, blobs, nextId, deletedOk, cascaded, raced>>

\* -------------------------------------- DELETE /api/playlists/:id (606-637)
\* (mutant of DeletePlaylistFindAndDelete: the 404 check is lost)
DeletePlaylistUnchecked(p) ==
    /\ Free(p)
    /\ \E id \in PlaylistIdInputs :
         /\ playlists' = DeleteById(playlists, id)
         /\ response' = Null
         /\ req' = [req EXCEPT ![p] =
                [NoReq EXCEPT !.op = "deletePlaylist", !.pc = "deleted", !.id = Some(id),
                              !.playlist = FindById(playlists, id)]]
    /\ UNCHANGED <<songs, blobs, nextId, deletedOk, cascaded, raced>>

\* await Playlist.findByIdAndDelete(id); if (!playlist) return res.status(404)...
DeletePlaylistFindAndDelete(p) ==
    /\ Free(p)
    /\ \E id \in PlaylistIdInputs :
         LET r == [NoReq EXCEPT !.op = "deletePlaylist", !.id = Some(id),
                                !.playlist = FindById(playlists, id)]
         IN  /\ playlists' = DeleteById(playlists, id)
             /\ IF r.playlist = Null
                THEN /\ response' = Response(r, 404, "", Null)
                     /\ req' = req
                ELSE /\ response' = Null
                     /\ req' = [req EXCEPT ![p] = [r EXCEPT !.pc = "deleted"]]
    /\ UNCHANGED <<songs, blobs, nextId, deletedOk, cascaded, raced>>

\* await Song.find({ playlistId: id })
DeletePlaylistFindSongs(p) ==
    /\ req[p].op = "deletePlaylist" /\ req[p].pc = "deleted"
    /\ req' = [req EXCEPT ![p].pc = "found", ![p].songs = SongFind(req[p].id[1])]
    /\ response' = Null
    /\ UNCHANGED <<playlists, songs, blobs, nextId, deletedOk, cascaded, raced>>

\* the files the first n songs of the list name
FilesOf(list, n) == {FilePath(list[i].audioFile) : i \in 1..n}

\* songs.forEach(song => { if (exists) unlinkSync }) (lines 620-627), then
\* Song.deleteMany is issued.  thrown = 0: no unlinkSync throws; thrown = k:
\* the one for the k-th song throws, which ends the loop and the try block.
DeletePlaylistUnlink(p) ==
    /\ req[p].op = "deletePlaylist" /\ req[p].pc = "found"
    /\ \E thrown \in 0..Len(req[p].songs) :
         IF thrown = 0
         THEN /\ blobs' = blobs \ FilesOf(req[p].songs, Len(req[p].songs))
              /\ req' = [req EXCEPT ![p].pc = "unlinked"]
              /\ response' = Null
         ELSE /\ FilePath(req[p].songs[thrown].audioFile) \in blobs
              /\ blobs' = blobs \ FilesOf(req[p].songs, thrown - 1)
              /\ req' = [req EXCEPT ![p] = NoReq]
              /\ response' = Response(req[p], 500, "EUNLINK", Null)
    /\ UNCHANGED <<playlists, songs, nextId, deletedOk, cascaded, raced>>

\* await Song.deleteMany({ playlistId: id });
\* res.json({ message: 'Playlist and all songs deleted successfully' })
DeletePlaylistDeleteMany(p) ==
    /\ req[p].op = "deletePlaylist" /\ req[p].pc = "unlinked"
    /\ songs' = SongDeleteMany(req[p].id[1])
    /\ req' = [req EXCEPT ![p] = NoReq]
    /\ response' = Response(req[p], 200, "", Null)
    /\ deletedOk' = deletedOk \cup {req[p].id[1]}
    /\ cascaded' = cascaded \cup {FilePath(s.audioFile) : s \in songs \ songs'}
    /\ raced' = raced \cup
          { req[q].filename[1] : q \in {q \in Procs : /\ req[q].op = "addSong"
                                                      /\ req[q].filename # Null
                                                      /\ req[q].id = req[p].id} }
    /\ UNCHANGED <<playlists, blobs, nextId>>

\* ------------------------------------------ DELETE /api/songs/:id (640-663)
\* await Song.findByIdAndDelete(id); if (!song) return res.status(404)...
DeleteSongFindAndDelete(p) ==
    /\ Free(p)
    /\ \E id \in SongIdInputs :
         LET r == [NoReq EXCEPT !.op = "deleteSong", !.id = Some(id),
                                !.song = FindById(songs, id)]
         IN  /\ songs' = DeleteById(songs, id)
             /\ IF r.song = Null
                THEN /\ response' = Response(r, 404, "", Null)
                     /\ req' = req
                ELSE /\ response' = Null
                     /\ req' = [req EXCEPT ![p] = [r EXCEPT !.pc = "deleted"]]
    /\ UNCHANGED <<playlists, blobs, nextId, deletedOk, cascaded, raced>>

\* (mutant of DeleteSongUnlink: the file is never unlinked)
DeleteSongKeepsFile(p) ==
    /\ req[p].op = "deleteSong" /\ req[p].pc = "deleted"
    /\ response' = Response(req[p], 200, "", Null)
    /\ req' = [req EXCEPT ![p] = NoReq]
    /\ UNCHANGED <<playlists, songs, blobs, nextId, deletedOk, cascaded, raced>>

\* if (existsSync(filePath)) unlinkSync(filePath) (lines 651-656), which may
\* throw; res.json({ message: 'Song deleted successfully' })
DeleteSongUnlink(p) ==
    /\ req[p].op = "deleteSong" /\ req[p].pc = "deleted"
    /\ LET file == FilePath(req[p].song[1].audioFile)
       IN  \/ /\ blobs' = blobs \ {file}
              /\ response' = Response(req[p], 200, "", Null)
           \/ /\ file \in blobs
              /\ blobs' = blobs
              /\ response' = Response(req[p], 500, "EUNLINK", Null)
    /\ req' = [req EXCEPT ![p] = NoReq]
    /\ UNCHANGED <<playlists, songs, nextId, deletedOk, cascaded, raced>>

\* ------------------------------------------------------------ specification
\* The server under requests of any origin; the browser client stays as it is.
Next ==
    \E p \in Procs :
        \/ CreatePlaylist(p, MaxPlaylists) /\ UNCHANGED client
        \/ AddSongUpload(p, SomePlaylistIds, CommonFiles) /\ UNCHANGED client
        \/ AddSongParse(p, ExtractedDurations) /\ UNCHANGED client
        \/ AddSongSave(p) /\ UNCHANGED client
        \/ GetPlaylistFindById(p) /\ UNCHANGED client
        \/ GetPlaylistFindSongs(p) /\ UNCHANGED client
        \/ DeletePlaylistFindAndDelete(p) /\ UNCHANGED client
        \/ DeletePlaylistFindSongs(p) /\ UNCHANGED client
        \/ DeletePlaylistUnlink(p) /\ UNCHANGED client
        \/ DeletePlaylistDeleteMany(p) /\ UNCHANGED client
        \/ DeleteSongFindAndDelete(p) /\ UNCHANGED client
        \/ DeleteSongUnlink(p) /\ UNCHANGED client

Spec == Init /\ [][Next]_vars

\* One upload at a time into an empty store, over every upload input and
\* every extracted duration.
NextAddSong ==
    \E p \in Procs :
        \/ /\ blobs = {}
           /\ AddSongUpload(p, BodyPlaylistIds, FileInputs)
           /\ UNCHANGED client
        \/ AddSongParse(p, AllDurations) /\ UNCHANGED client
        \/ AddSongSave(p) /\ UNCHANGED client

SpecAddSong == Init /\ [][NextAddSong]_vars

\* ------------------------------------------------- browser client (1-397)
\* The server serves one browser client.  A request reaches the server in the
\* step in which the client sends it, and the client handles a response in
\* the step in which the server sends it; in between, the handler that
\* awaits it keeps the state it closed over.  The user confirms every
\* confirm() and fills the forms in as their `required` fields demand.

\* the :id of the request that handler p of the server has just taken up
Requested(p, id) ==
    IF req'[p].pc = "idle" THEN response'[1].id = Some(id) ELSE req'[p].id = Some(id)

\* PlaylistDetails renders the playlist, its songs and the SongForm
\* (lines 248-256)
Rendered == client.selectedPlaylistId # Null /\ client.playlist # Null

\* the handler that awaited request p has run: its closure is dropped
Settled(c, p) == [c EXCEPT !.closure[p] = Null]

\* PlaylistForm.handleSubmit (lines 92-95): axios.post('/api/playlists')
SubmitPlaylist(p) ==
    /\ client.created = Null
    /\ CreatePlaylist(p, MaxClientPlaylists)
    /\ response'[1].status = 201
    /\ client' = [client EXCEPT !.created =
                      Some([data |-> response'[1].body[1], playlists |-> client.playlists])]

\* onPlaylistCreated(res.data) (line 96): App.handlePlaylistCreated
\* (lines 345-348) selects the new playlist, and the effect of
\* PlaylistDetails (lines 211-213) calls fetchDetails for it (lines 200-203)
PlaylistCreated(p) ==
    /\ client.created # Null
    /\ GetPlaylistFindById(p)
    /\ Requested(p, client.created[1].data._id)
    /\ client' = [client EXCEPT
                      !.playlists = <<client.created[1].data>> \o client.created[1].playlists,
                      !.selectedPlaylistId = Some(client.created[1].data._id),
                      !.created = Null]

\* onClick={() => setSelectedPlaylistId(pl._id)} (line 374) on a playlist
\* that is not the selected one, then the effect calls fetchDetails
SelectPlaylist(p) ==
    \E i \in 1..Len(client.playlists) :
        /\ client.selectedPlaylistId # Some(client.playlists[i]._id)
        /\ GetPlaylistFindById(p)
        /\ Requested(p, client.playlists[i]._id)
        /\ client' = [client EXCEPT !.selectedPlaylistId = Some(client.playlists[i]._id)]

\* fetchDetails after its await (lines 204-205): setPlaylist, setSongs
FetchDetailsDone(p) ==
    /\ GetPlaylistFindSongs(p)
    /\ client' = [client EXCEPT !.playlist = Some(response'[1].body[1].playlist),
                                !.songs = response'[1].body[1].songs]

\* SongForm.handleSubmit (lines 139-156) with a file chosen, the button being
\* disabled while an upload is under way (line 187); the form carries
\* playlist._id (line 323) and onSongAdded closes over songs (lines 215-217)
SubmitSong(p) ==
    /\ Rendered
    /\ \A q \in Procs : req[q].op # "addSong"
    /\ AddSongUpload(p, {Some(client.playlist[1]._id)}, {Some(Mp3File)})
    /\ client' = [client EXCEPT !.closure[p] = Some(client.songs)]

\* the server extracts the metadata; when that fails the catch block of
\* handleSubmit only alerts (lines 161-163)
UploadParsed(p) ==
    /\ AddSongParse(p, ExtractedDurations)
    /\ client' = IF req'[p].pc = "idle" THEN Settled(client, p) ELSE client

\* onSongAdded(res.data) (line 157): setSongs([...songs, newSong]) (line 216)
SongAdded(p) ==
    /\ AddSongSave(p)
    /\ client' = IF response'[1].status = 201
                 THEN [Settled(client, p) EXCEPT
                          !.songs = client.closure[p][1] \o <<response'[1].body[1]>>]
                 ELSE Settled(client, p)

\* PlaylistDetails.deleteSong(song._id) (lines 223-226) of a listed song
ClickDeleteSong(p) ==
    /\ Rendered
    /\ \E i \in 1..Len(client.songs) :
          /\ DeleteSongFindAndDelete(p)
          /\ Requested(p, client.songs[i]._id)
    /\ client' = IF req'[p].pc = "idle" THEN client
                 ELSE [client EXCEPT !.closure[p] = Some(client.songs)]

\* deleteSong after its await (line 227): setSongs(songs.filter(...)); on an
\* error response it only alerts (lines 231-234)
SongDeleted(p) ==
    /\ DeleteSongUnlink(p)
    /\ client' = IF response'[1].status = 200
                 THEN [Settled(client, p) EXCEPT
                          !.songs = SelectSeq(client.closure[p][1],
                                              LAMBDA s : s._id # req[p].id[1])]
                 ELSE Settled(client, p)

\* PlaylistDetails.deletePlaylist (lines 237-240) of the selected playlist;
\* onPlaylistDeleted closes over the playlists of App (lines 350-353)
ClickDeletePlaylist(p) ==
    /\ Rendered
    /\ DeletePlaylistFindAndDelete(p)
    /\ Requested(p, client.selectedPlaylistId[1])
    /\ client' = IF req'[p].pc = "idle" THEN client
                 ELSE [client EXCEPT !.closure[p] = Some(client.playlists)]

\* the server looks the songs of the deleted playlist up
PlaylistSongsFound(p) ==
    /\ DeletePlaylistFindSongs(p)
    /\ UNCHANGED client

\* the server unlinks their files; on an error response deletePlaylist only
\* alerts (lines 242-245)
PlaylistFilesUnlinked(p) ==
    /\ DeletePlaylistUnlink(p)
    /\ client' = IF req'[p].pc = "idle" THEN Settled(client, p) ELSE client

\* onPlaylistDeleted(playlistId) (line 241): App.handlePlaylistDeleted
\* (lines 350-353); the effect then finds no playlistId (line 201)
PlaylistDeleted(p) ==
    /\ DeletePlaylistDeleteMany(p)
    /\ client' = [Settled(client, p) EXCEPT
                      !.playlists = SelectSeq(client.closure[p][1],
                                              LAMBDA r : r._id # req[p].id[1]),
                      !.selectedPlaylistId = Null]

NextClient ==
    \E p \in Procs :
        \/ SubmitPlaylist(p)
        \/ PlaylistCreated(p)
        \/ SelectPlaylist(p)
        \/ FetchDetailsDone(p)
        \/ SubmitSong(p)
        \/ UploadParsed(p)
        \/ SongAdded(p)
        \/ ClickDeleteSong(p)
        \/ SongDeleted(p)
        \/ ClickDeletePlaylist(p)
        \/ PlaylistSongsFound(p)
        \/ PlaylistFilesUnlinked(p)
        \/ PlaylistDeleted(p)

SpecClient == Init /\ [][NextClient]_vars

\* ------------------------------------------------------------------ claims
PlaylistRowIds == {r._id : r \in playlists}
SongRowIds     == {r._id : r \in songs}
SongsOf(id)    == {r \in songs : r.playlistId = id}

\* the last step answered a request of route op
Answered(op) == response # Null /\ response[1].op = op

\* the store: both collections and the uploads directory
store == <<playlists, songs, blobs>>

\* C1.  Cascading delete: once DELETE /api/playlists/P has returned 200, in
\* every later state P is no stored playlist, no Song row has playlistId P,
\* and the files of the songs the delete removed are not in the uploads
\* directory.
CascadingDelete ==
    /\ \A id \in deletedOk : id \notin PlaylistRowIds /\ SongsOf(id) = {}
    /\ cascaded \cap blobs = {}

\* C2.  A song that POST /api/songs has just inserted (201) carries the id
\* of a playlist that is stored at that moment.
SongReferencesStoredPlaylist ==
    Answered("addSong") /\ response[1].status = 201
        => response[1].body[1].playlistId \in PlaylistRowIds

\* C3.  When DELETE /api/playlists/P of a stored playlist P has answered,
\* with 200 or with an error, either the playlist row and every Song row of
\* P are gone together with the files of the removed rows, or the playlist
\* row is still there.
DeletePlaylistAtomic ==
    Answered("deletePlaylist") /\ response[1].status # 404
        => \/ /\ response[1].id[1] \notin PlaylistRowIds
              /\ SongsOf(response[1].id[1]) = {}
              /\ cascaded \cap blobs = {}
           \/ response[1].id[1] \in PlaylistRowIds

\* the song list of a 200 of GET /api/playlists/:id
ListOfGet == response[1].body[1].songs

\* that list is the Song rows of the playlist, each once
GetListsSongsOfPlaylist ==
    Answered("getPlaylist") /\ response[1].status = 200
        => /\ {ListOfGet[i] : i \in 1..Len(ListOfGet)} = SongsOf(response[1].id[1])
           /\ Len(ListOfGet) = Cardinality(SongsOf(response[1].id[1]))

\* how Song rows come and go in one step
SongRowsStep ==
    /\ \A r \in playlists' \ playlists : \A s \in songs' : s.playlistId # r._id
    /\ (response' # Null /\ response'[1].op = "addSong" /\ response'[1].status = 201)
          => \E p \in Procs :
                /\ req[p].pc = "save" /\ req'[p].pc = "idle"
                /\ response'[1].body[1].playlistId = req[p].id[1]
                /\ response'[1].body[1] \in songs'
    /\ \A s \in songs \ songs' :
          \E p \in Procs :
              \/ /\ req[p].op = "deletePlaylist" /\ req[p].pc = "unlinked"
                 /\ req[p].id[1] = s.playlistId
              \/ /\ req[p].pc = "idle" /\ req'[p].op = "deleteSong"
                 /\ req'[p].song = Some(s)

\* C4.  A 200 of GET /api/playlists/P lists exactly the Song rows whose
\* playlistId is P, each once, so its length is their count; a playlist that
\* was just created has no Song row; the row a 201 of POST /api/songs returns
\* carries the playlistId of the request and is stored; and a stored Song row
\* leaves the collection only through the DELETE of that song or of its
\* playlist.
PlaylistListsItsSongs == []GetListsSongsOfPlaylist /\ [][SongRowsStep]_vars

\* C4 witness: a 200 that lists one song while a row of another playlist id
\* is stored
GetListedOneOfTwo ==
    /\ Answered("getPlaylist") /\ response[1].status = 200
    /\ Len(ListOfGet) = 1
    /\ Cardinality(songs) = 2

\* one step of DELETE /api/songs/:id
DeleteSongStep ==
    /\ \A p \in Procs :
          /\ (req[p].pc = "idle" /\ req'[p].op = "deleteSong")
                => /\ req'[p].song # Null
                   /\ req'[p].song[1] \in songs
                   /\ req'[p].song[1]._id = req'[p].id[1]
                   /\ songs' = songs \ {req'[p].song[1]}
                   /\ blobs' = blobs /\ playlists' = playlists
          /\ (req[p].op = "deleteSong" /\ req[p].pc = "deleted" /\ req'[p].pc = "idle")
                => /\ response' # Null /\ response'[1].op = "deleteSong"
                   /\ songs' = songs /\ playlists' = playlists
                   /\ \/ /\ response'[1].status = 200
                         /\ blobs' = blobs \ {FilePath(req[p].song[1].audioFile)}
                      \/ /\ response'[1].status = 500
                         /\ FilePath(req[p].song[1].audioFile) \in blobs
                         /\ blobs' = blobs
    /\ (response' # Null /\ response'[1].op = "deleteSong" /\ req' = req)
          => /\ response'[1].status = 404
             /\ response'[1].id[1] \notin SongRowIds
             /\ store' = store
    /\ \A id \in IssuedSongIds : id \notin SongRowIds => id \notin SongRowIds'

\* C5 (as amended).  The DELETE of a stored song removes its row at the
\* lookup; it then answers 200 with the file removed, or 500 with the file
\* left when unlinkSync throws; a DELETE whose lookup finds no row answers
\* 404 and changes no row and no file; and the id of a removed row never
\* names a row again, so every later DELETE of that song answers 404.
DeleteSongIdempotent == [][DeleteSongStep]_vars

\* C5 witness: a 404 for the id of a song that was stored once
DeleteSongAgain404 ==
    /\ Answered("deleteSong") /\ response[1].status = 404
    /\ response[1].id[1] \in IssuedSongIds

\* C5 as stated: the DELETE that finds the song answers 200 with the row and
\* the file removed.
DeleteSongFirstSucceeds ==
    [][\A p \in Procs :
          (req[p].op = "deleteSong" /\ req[p].pc = "deleted" /\ req'[p].pc = "idle")
              => /\ response'[1].status = 200
                 /\ req[p].song[1] \notin songs'
                 /\ FilePath(req[p].song[1].audioFile) \notin blobs']_vars

\* the lookup step of GET and DELETE /api/playlists/:id
UnknownPlaylistStep ==
    /\ \A p \in Procs :
          (req[p].pc = "idle" /\ req'[p].op \in {"getPlaylist", "deletePlaylist"})
              => req'[p].id[1] \in PlaylistRowIds
    /\ (/\ response' # Null
        /\ response'[1].op \in {"getPlaylist", "deletePlaylist"}
        /\ req' = req)
          => /\ response'[1].status = 404
             /\ response'[1].id[1] \notin PlaylistRowIds
             /\ store' = store

AudioExtensions ==
    { <<".", "m", "p", "3">>, <<".", "w", "a", "v">>,
      <<".", "o", "g", "g">>, <<".", "m", "4", "a">> }

InAllowList(file) ==
    /\ ToLowerCase(ExtName(file.originalname)) \in AudioExtensions
    /\ StartsWith(file.mimetype, AudioPrefix)

\* C7.  An upload whose extension is not one of .mp3 .wav .ogg .m4a (in any
\* case), or whose MIME type does not start with audio/, stores no file.
OnlyAudioIsStored ==
    \A p \in Procs :
        (req[p].file # Null /\ ~InAllowList(req[p].file[1])) => req[p].filename = Null

\* reading a decimal numeral back
DigitValue(c) == CHOOSE n \in 0..9 : Digit(n) = c

RECURSIVE ParseNat(_)
ParseNat(text) ==
    IF Len(text) = 0 THEN 0
    ELSE 10 * ParseNat(SubSeq(text, 1, Len(text) - 1)) + DigitValue(text[Len(text)])

IsDigits(text) == \A i \in 1..Len(text) : \E n \in 0..9 : Digit(n) = text[i]

\* text is d seconds written as M:SS
MinutesColonSeconds(d, text) ==
    /\ Cardinality({i \in 1..Len(text) : text[i] = ":"}) = 1
    /\ LET colon   == CHOOSE i \in 1..Len(text) : text[i] = ":"
           minutes == SubSeq(text, 1, colon - 1)
           seconds == SubSeq(text, colon + 1, Len(text))
       IN  /\ Len(minutes) >= 1 /\ IsDigits(minutes)
           /\ Len(minutes) = 1 \/ minutes[1] # "0"
           /\ Len(seconds) = 2 /\ IsDigits(seconds)
           /\ ParseNat(seconds) \in 0..59
           /\ ParseNat(minutes) * 60 + ParseNat(seconds) = d
    /\ d = 125 => text = <<"2", ":", "0", "5">>
    /\ d = 0 => text = <<"0", ":", "0", "0">>

\* the save step of POST /api/songs
DurationStep ==
    \A p \in Procs :
        (/\ req[p].op = "addSong" /\ req[p].pc = "save" /\ req'[p].pc = "idle"
         /\ response'[1].status = 201)
            => /\ songs' = songs \cup {response'[1].body[1]}
               /\ MinutesColonSeconds(
                      IF req[p].duration = Null THEN 0 ELSE req[p].duration[1],
                      response'[1].body[1].duration)

\* C8.  The duration a saved song carries is the minutes of the extracted
\* whole seconds (0 when none was extracted) without padding, a colon, and
\* the remaining seconds as exactly two digits.
DurationIsMinutesColonSeconds == [][DurationStep]_vars

\* C8 witness: songs saved with "2:05" (125 s extracted)
SongOfTwoMinutesFive == \E s \in songs : s.duration = <<"2", ":", "0", "5">>

\* C9.  When unlinkSync throws during DELETE /api/playlists/P, the call still
\* answers 200 and no Song row of P is left.
BlobErrorIsSwallowed ==
    (Answered("deletePlaylist") /\ response[1].error = "EUNLINK")
        => /\ response[1].status = 200
           /\ SongsOf(response[1].id[1]) = {}

\* C10 (as amended).  Inside a DELETE /api/songs/:id that found the song, the
\* Song row is already gone: the row is removed first and the file second.
SongRowRemovedFirst ==
    \A p \in Procs :
        (req[p].op = "deleteSong" /\ req[p].pc = "deleted")
            => /\ req[p].song[1] \notin songs
               /\ req[p].id[1] \notin SongRowIds

\* C10 witness: inside the call the row is gone and the file is still stored
SongRowGoneFileStored ==
    \E p \in Procs :
        /\ req[p].op = "deleteSong" /\ req[p].pc = "deleted"
        /\ req[p].id[1] \notin SongRowIds
        /\ FilePath(req[p].song[1].audioFile) \in blobs

\* C10 as stated: no state inside a DELETE /api/songs/:id has the Song row
\* gone while its file is still in the uploads directory.
SongFileRemovedFirst ==
    \A p \in Procs :
        (req[p].op = "deleteSong" /\ req[p].pc = "deleted"
            /\ req[p].id[1] \notin SongRowIds)
            => FilePath(req[p].song[1].audioFile) \notin blobs

\* the save of an upload that carries a playlistId inserts its row and answers
\* 201 without looking at the Playlist collection, and the last step of a
\* DELETE /api/playlists/P answers 200 and leaves every file alone, whatever
\* uploads are in flight
NotSerializedStep ==
    \A p \in Procs :
        /\ (/\ req[p].op = "addSong" /\ req[p].pc = "save" /\ req[p].id # Null
            /\ req'[p].pc = "idle")
              => /\ response' # Null /\ response'[1].status = 201
                 /\ response'[1].body[1].playlistId = req[p].id[1]
                 /\ response'[1].body[1].audioFile = AudioFile(req[p].filename[1])
                 /\ songs' = songs \cup {response'[1].body[1]}
                 /\ playlists' = playlists /\ blobs' = blobs
        /\ (/\ req[p].op = "deletePlaylist" /\ req[p].pc = "unlinked"
            /\ req'[p].pc = "idle")
              => /\ response' # Null /\ response'[1].status = 200
                 /\ songs' = {s \in songs : s.playlistId # req[p].id[1]}
                 /\ playlists' = playlists /\ blobs' = blobs
                 /\ \A q \in Procs \ {p} : req'[q] = req[q]

\* a stored Song row whose upload was in flight when the DELETE of its
\* playlist answered 200 names a playlist that is not stored
RacedRowsAreOrphans ==
    \A s \in songs :
        FilePath(s.audioFile) \in raced
            => s.playlistId \in deletedOk /\ s.playlistId \notin PlaylistRowIds

\* C11.  POST /api/songs for P and DELETE /api/playlists/P are not
\* serialized: the upload's save answers 201 and stores its row whether or not
\* P is still stored, the DELETE answers 200 whatever uploads are in flight,
\* and a row saved by an upload that was in flight when the DELETE of P
\* answered 200 stays with playlistId P while P is not stored.
AddSongRacesDeletePlaylist == []RacedRowsAreOrphans /\ [][NotSerializedStep]_vars

\* C11 witness: both calls overlapped and answered 200 and 201, and the row
\* and its file are stored while the playlist is not
OrphanAfterRace ==
    /\ Answered("addSong") /\ response[1].status = 201
    /\ response[1].body[1] \in songs
    /\ FilePath(response[1].body[1].audioFile) \in raced \cap blobs
    /\ response[1].body[1].playlistId \in deletedOk
    /\ response[1].body[1].playlistId \notin PlaylistRowIds
    /\ \A p \in Procs : Free(p)

\* file b of the uploads directory is named by a Song row or by a local
\* variable of a request in flight
Referenced(b) ==
    \/ \E s \in songs : FilePath(s.audioFile) = b
    \/ \E p \in Procs :
          \/ req[p].filename = Some(b)
          \/ req[p].song # Null /\ FilePath(req[p].song[1].audioFile) = b
          \/ \E i \in 1..Len(req[p].songs) : FilePath(req[p].songs[i].audioFile) = b

\* the step in which parseFile rejects, and the steps after it
MetadataFailureStep ==
    /\ \A p \in Procs :
          (req[p].op = "addSong" /\ req[p].pc = "parse" /\ req'[p].pc = "idle")
              => /\ response' # Null
                 /\ response'[1].op = "addSong" /\ response'[1].status = 500
                 /\ response'[1].error = "MetadataExtractionError"
                 /\ songs' = songs /\ playlists' = playlists /\ blobs' = blobs
                 /\ req[p].filename[1] \in blobs'
                 /\ \A s \in songs' : FilePath(s.audioFile) # req[p].filename[1]
                 /\ \A q \in Procs : req'[q].filename # req[p].filename
    /\ \A b \in blobs : ~Referenced(b) => b \in blobs' /\ ~Referenced(b)'

\* C12.  When parseFile rejects after multer stored the file, POST /api/songs
\* answers 500 with the extractor's error, inserts no Song row and leaves the
\* file in the uploads directory; no Song row names that file, and a file
\* that no row and no request names is never removed or named again.
MetadataFailureOrphansBlob == [][MetadataFailureStep]_vars

\* C12 witness: the extraction has just failed, no song was ever saved, and
\* the files of the failed uploads are stored with nothing naming them
BlobLeftByFailedExtraction ==
    /\ Answered("addSong") /\ response[1].status = 500
    /\ response[1].error = "MetadataExtractionError"
    /\ nextId.song = 1 /\ \A p \in Procs : Free(p)
    /\ blobs # {} /\ \A b \in blobs : ~Referenced(b)

\* no request of the client is in flight
Quiescent == client.created = Null /\ \A p \in Procs : Free(p)

\* C13.  Whenever no request of the client is in flight and a playlist is
\* selected, every song in the list PlaylistDetails holds is a song of the
\* selected playlist.
DetailsListSelectedPlaylist ==
    (Quiescent /\ client.selectedPlaylistId # Null)
        => \A i \in 1..Len(client.songs) :
              client.songs[i].playlistId = client.selectedPlaylistId[1]

=============================================================================
